---- MODULE Spec2Model ----
(***************************************************************************)
(* The microgame container (GameContainer) as a state machine.             *)
(*                                                                         *)
(* The container is a React function component.  Every handler is a        *)
(* closure over the `state` and `skipButtonTimer` of the render that       *)
(* created it; setState(prev => ...) updaters are queued by the handler    *)
(* and applied, in order, to the committed state when the handler returns. *)
(* A handler called from a setTimeout scheduled by a microgame is the      *)
(* closure of the render in which the microgame was tapped, so it may be   *)
(* older than the committed state it is applied to.                        *)
(***************************************************************************)
EXTENDS Integers, Sequences, FiniteSets, TLC

\* ---------------------------------------------------------------- bounds
MaxTicks == 4       \* the clock stops MaxTicks skip delays after Init
MaxSessions == 2    \* startGame calls in one behaviour
MaxTaps == 4        \* taps a ColorMatch, DirectionMatch or OddOneOut receives
MaxExtraTaps == 1   \* target taps a SpeedTap receives beyond requiredTaps
MaxTimeouts == 3    \* setTimeout calls of a SpeedTap pending at a time
MaxMinutes == 100   \* whole minutes of a time that is formatted

\* ------------------------------------------------------ program constants
NumLevels == 5
SKIP_PENALTY_MS == 30000
SKIP_DELAY_MS == 5000
COLOR_MATCH_DELAY_MS == 300
SEQUENCE_MEMORY_DELAY_MS == 500
SEQUENCE_LENGTH == 4
PLAYBACK_INITIAL_MS == 500
PLAYBACK_FLASH_MS == 400
PLAYBACK_GAP_MS == 200
PLAYBACK_PAUSE_MS == 300
NUM_ARROWS == 4
NUM_OPTIONS == 4
NUM_ITEMS == 8
DIRECTION_MATCH_DELAY_MS == 500
DIRECTION_MATCH_CLEAR_MS == 500
COLOR_MATCH_CLEAR_MS == 500
ODD_ONE_OUT_DELAY_MS == 500
ODD_ONE_OUT_CLEAR_MS == 500
NUM_BUTTONS == 4
REQUIRED_TAPS == 15
TARGET_CHANGE_EVERY == 3
SPEED_TAP_CORRECT_CLEAR_MS == 150
SPEED_TAP_DELAY_MS == 200
SPEED_TAP_WRONG_CLEAR_MS == 300
NUM_MEMORY_BUTTONS == 4
MEMORY_FEEDBACK_CLEAR_MS == 300
MEMORY_RESET_MS == 500

\* The clock (Date.now()) moves to the next due timeout, or by the skip
\* delay when the player waits.
TickMs == SKIP_DELAY_MS
StartOfTime == TickMs   \* a positive timestamp, as Date.now() is
MaxTime == StartOfTime + TickMs * MaxTicks

NULL == 0   \* JS null for startTime and for the timer handle (both falsy)
None == -1  \* JS null for an index-valued field (0 is a valid index)

Levels == 1..NumLevels

VARIABLES
  state,            \* GameContainerState, the committed React state
  skipButtonTimer,  \* the committed timer handle (NULL or a timer id)
  timers,           \* pending skip-visibility timeouts
  pending,          \* pending microgame completion timeouts
  solved,           \* the mounted microgame has accepted its correct tap
  signalled,        \* the completion timeout that has just fired, if any
  now,              \* Date.now()
  session,          \* number of startGame calls so far
  levelStart,       \* the clock reading at which currentLevel was set
  choices,          \* per-level choices made in this session, in order
  clean,            \* no late or repeated completion signal in this session
  lastOp,           \* the operation that produced this state
  kind,             \* the microgame component studied on its own, or "none"
  gameState,        \* that instance's committed React state
  timeouts,         \* that instance's pending setTimeout calls, in order
  completions,      \* how often that instance has invoked onComplete
  tapLog,           \* the taps that instance has received, in order (SpeedTap: the last one)
  tapped            \* that instance has handled a tap at this instant

\* The variables of a microgame instance studied on its own.
microVars == <<kind, gameState, timeouts, completions, tapLog, tapped>>

\* The variables of the container.
containerVars == <<state, skipButtonTimer, timers, pending, solved, signalled,
                   now, session, levelStart, choices, clean, lastOp>>

vars == <<state, skipButtonTimer, timers, pending, solved, signalled, now,
          session, levelStart, choices, clean, lastOp, kind, gameState,
          timeouts, completions, tapLog, tapped>>

\* ------------------------------------------------------------------ data
DefaultResult == [completed |-> FALSE, skipped |-> FALSE, timeSpent |-> 0]

DefaultResults == [i \in Levels |-> DefaultResult]

InitialState ==
  [gameState |-> "idle", currentLevel |-> 1, startTime |-> NULL,
   totalTime |-> 0, levelResults |-> DefaultResults,
   showSkipButton |-> FALSE]

\* JS truthiness of a number-or-null (null and 0 are falsy)
Truthy(x) == x # NULL

\* games[state.currentLevel - 1] and the delay of its completion timeout
Games ==
  <<"ColorMatch", "SequenceMemory", "ColorMatch", "SequenceMemory",
    "ColorMatch">>

CompletionDelay(level) ==
  IF Games[level] = "ColorMatch" THEN COLOR_MATCH_DELAY_MS
  ELSE SEQUENCE_MEMORY_DELAY_MS

\* playSequence: the time after mount at which SequenceMemory enters its
\* input phase; ColorMatch accepts taps from its mount on.
InputDelay(level) ==
  IF Games[level] = "SequenceMemory"
  THEN PLAYBACK_INITIAL_MS
         + SEQUENCE_LENGTH * (PLAYBACK_FLASH_MS + PLAYBACK_GAP_MS)
         + PLAYBACK_PAUSE_MS
  ELSE 0

\* The render throws when games[currentLevel - 1] is undefined.
RenderDefined(st) ==
  st.gameState = "playing" => st.currentLevel \in DOMAIN Games

\* The closure a render hands to its handlers.
Closure == [state |-> state, skipButtonTimer |-> skipButtonTimer]

\* newLevelResults[cl.state.currentLevel - 1] = {...}
SetResult(results, level, r) ==
  [i \in DOMAIN results \cup {level} |-> IF i = level THEN r ELSE results[i]]

TimeSpent(cl, t) ==
  IF Truthy(cl.state.startTime) THEN t - cl.state.startTime ELSE 0

\* ------------------------------------------------------------ timer ids
UsedIds ==
  {tm.id : tm \in timers} \cup {skipButtonTimer}
    \cup {p.cl.skipButtonTimer : p \in pending \cup signalled}

FreshId ==
  CHOOSE i \in 1..(Cardinality(UsedIds) + 1) :
    /\ i \notin UsedIds
    /\ \A j \in 1..(i - 1) : j \in UsedIds

ClearTimeout(ts, id) == {tm \in ts : tm.id # id}

\* The effect cleanup of [skipButtonTimer]: when the committed handle
\* changes, the handle of the previous render is cleared.
EffectCleanup(ts, newHandle) ==
  IF newHandle # skipButtonTimer THEN ClearTimeout(ts, skipButtonTimer)
  ELSE ts

\* ------------------------------------------------------------- updaters
\* An endGame that would clear the start time when the game finishes.
EndGameUpdClearsStart(cl, prev, t) ==
  LET finalTime == IF Truthy(cl.state.startTime)
                   THEN t - cl.state.startTime + cl.state.totalTime
                   ELSE cl.state.totalTime
  IN [prev EXCEPT !.gameState = "completed",
                  !.startTime = NULL,
                  !.totalTime = finalTime,
                  !.showSkipButton = FALSE]

\* endGame: the updater queued by the closure cl at time t
EndGameUpd(cl, prev, t) ==
  LET finalTime == IF Truthy(cl.state.startTime)
                   THEN t - cl.state.startTime + cl.state.totalTime
                   ELSE cl.state.totalTime
  IN [prev EXCEPT !.gameState = "completed",
                  !.totalTime = finalTime,
                  !.showSkipButton = FALSE]

\* AdvanceUpd with the object spread taken from the closure's state
\* instead of the updater's argument (setState({...state, ...})).
AdvanceUpdSpreadState(cl, prev, t) ==
  LET newLevelResults ==
        SetResult(cl.state.levelResults, cl.state.currentLevel,
                  [completed |-> TRUE, skipped |-> FALSE,
                   timeSpent |-> TimeSpent(cl, t)])
  IN [cl.state EXCEPT !.currentLevel = @ + 1,
                      !.levelResults = newLevelResults,
                      !.showSkipButton = FALSE]

\* AdvanceUpd that leaves the skip button as it is.
AdvanceUpdKeepsButton(cl, prev, t) ==
  LET newLevelResults ==
        SetResult(cl.state.levelResults, cl.state.currentLevel,
                  [completed |-> TRUE, skipped |-> FALSE,
                   timeSpent |-> TimeSpent(cl, t)])
  IN [prev EXCEPT !.currentLevel = @ + 1,
                  !.levelResults = newLevelResults]

\* AdvanceUpd that charges the skip penalty in the shared advance path.
AdvanceUpdAddsPenalty(cl, prev, t) ==
  LET newLevelResults ==
        SetResult(cl.state.levelResults, cl.state.currentLevel,
                  [completed |-> TRUE, skipped |-> FALSE,
                   timeSpent |-> TimeSpent(cl, t)])
  IN [prev EXCEPT !.currentLevel = @ + 1,
                  !.totalTime = @ + SKIP_PENALTY_MS,
                  !.levelResults = newLevelResults,
                  !.showSkipButton = FALSE]

\* handleLevelComplete, else branch: the updater queued by cl at time t
AdvanceUpd(cl, prev, t) ==
  LET newLevelResults ==
        SetResult(cl.state.levelResults, cl.state.currentLevel,
                  [completed |-> TRUE, skipped |-> FALSE,
                   timeSpent |-> TimeSpent(cl, t)])
  IN [prev EXCEPT !.currentLevel = @ + 1,
                  !.levelResults = newLevelResults,
                  !.showSkipButton = FALSE]

\* SkipUpd that also advances the level itself, before handleLevelComplete
\* advances it again.
SkipUpdAdvancing(cl, prev, t) ==
  LET newLevelResults ==
        SetResult(cl.state.levelResults, cl.state.currentLevel,
                  [completed |-> FALSE, skipped |-> TRUE,
                   timeSpent |-> TimeSpent(cl, t)])
  IN [prev EXCEPT !.totalTime = @ + SKIP_PENALTY_MS,
                  !.currentLevel = @ + 1,
                  !.levelResults = newLevelResults]

\* handleSkip: the updater queued before it calls handleLevelComplete
SkipUpd(cl, prev, t) ==
  LET newLevelResults ==
        SetResult(cl.state.levelResults, cl.state.currentLevel,
                  [completed |-> FALSE, skipped |-> TRUE,
                   timeSpent |-> TimeSpent(cl, t)])
  IN [prev EXCEPT !.totalTime = @ + SKIP_PENALTY_MS,
                  !.levelResults = newLevelResults]

\* handleLevelComplete run by closure cl on the committed state prev:
\* the state it commits, the timeouts it leaves pending and the handle.
HandleLevelComplete(cl, prev, t) ==
  IF cl.state.currentLevel >= 5
  THEN [st |-> EndGameUpd(cl, prev, t),
        ts |-> ClearTimeout(timers, cl.skipButtonTimer),
        handle |-> skipButtonTimer]
  ELSE LET id == FreshId
           st == AdvanceUpd(cl, prev, t)
       IN [st |-> st,
           ts |-> EffectCleanup(
                    ClearTimeout(timers, cl.skipButtonTimer), id)
                  \cup {[id |-> id, due |-> t + SKIP_DELAY_MS,
                         level |-> st.currentLevel, session |-> session]},
           handle |-> id]

\* The clock reading at which the level of the committed state st began.
LevelStartAfter(st) ==
  IF st.currentLevel # state.currentLevel THEN now ELSE levelStart

\* -------------------------------------------------------------- actions
\* No microgame instance is studied on its own.
NoMicrogame ==
  /\ kind = "none"
  /\ gameState = [phase |-> "none"]
  /\ timeouts = <<>>
  /\ completions = 0
  /\ tapLog = <<>>
  /\ tapped = FALSE

\* The container right after its construction.
InitContainer ==
  /\ state = InitialState
  /\ skipButtonTimer = NULL
  /\ timers = {}
  /\ pending = {}
  /\ solved = FALSE
  /\ signalled = {}
  /\ now = StartOfTime
  /\ session = 0
  /\ levelStart = StartOfTime
  /\ choices = <<>>
  /\ clean = TRUE
  /\ lastOp = [op |-> "init", level |-> 0]

Init ==
  /\ InitContainer
  /\ NoMicrogame

\* A start that would not schedule the skip-visibility timer.
StartGameNoTimer ==
  /\ state.gameState = "idle"
  /\ session < MaxSessions
  /\ state' = [gameState |-> "playing", currentLevel |-> 1,
                startTime |-> now, totalTime |-> 0,
                levelResults |-> DefaultResults,
                showSkipButton |-> FALSE]
  /\ solved' = FALSE
  /\ session' = session + 1
  /\ levelStart' = now
  /\ choices' = <<>>
  /\ clean' = TRUE
  /\ lastOp' = [op |-> "start", level |-> 1]
  /\ signalled' = {}
  /\ UNCHANGED microVars
  /\ UNCHANGED <<timers, skipButtonTimer, pending, now>>

\* startGame, the Start button of the idle screen
StartGame ==
  /\ state.gameState = "idle"
  /\ session < MaxSessions
  /\ LET id == FreshId
     IN /\ state' = [gameState |-> "playing", currentLevel |-> 1,
                     startTime |-> now, totalTime |-> 0,
                     levelResults |-> DefaultResults,
                     showSkipButton |-> FALSE]
        /\ timers' = EffectCleanup(timers, id)
                       \cup {[id |-> id, due |-> now + SKIP_DELAY_MS,
                              level |-> 1, session |-> session + 1]}
        /\ skipButtonTimer' = id
  /\ solved' = FALSE
  /\ session' = session + 1
  /\ levelStart' = now
  /\ choices' = <<>>
  /\ clean' = TRUE
  /\ lastOp' = [op |-> "start", level |-> 1]
  /\ signalled' = {}
  /\ UNCHANGED microVars
  /\ UNCHANGED <<pending, now>>

\* The skip-visibility timeout fires.
SkipTimerFires ==
  \E tm \in timers :
    /\ now >= tm.due
    /\ RenderDefined(state)
    /\ timers' = timers \ {tm}
    /\ state' = [state EXCEPT !.showSkipButton = TRUE]
    /\ lastOp' = [op |-> "timer", level |-> tm.level]
    /\ signalled' = {}
    /\ UNCHANGED microVars
    /\ UNCHANGED <<skipButtonTimer, pending, solved, now, session,
                   levelStart, choices, clean>>

\* The mounted microgame accepts its (last) correct tap and schedules
\* onComplete; further taps are ignored while the feedback is showing.
Solve ==
  /\ state.gameState = "playing"
  /\ RenderDefined(state)
  /\ ~solved
  /\ now >= levelStart + InputDelay(state.currentLevel)
  /\ pending' = pending \cup
       {[cl |-> Closure, level |-> state.currentLevel, session |-> session,
         due |-> now + CompletionDelay(state.currentLevel)]}
  /\ solved' = TRUE
  /\ lastOp' = [op |-> "solve", level |-> state.currentLevel]
  /\ signalled' = {}
  /\ UNCHANGED microVars
  /\ UNCHANGED <<state, skipButtonTimer, timers, now, session, levelStart,
                 choices, clean>>

\* A pending completion timeout belongs to the microgame on screen.
Current(p) ==
  /\ state.gameState = "playing"
  /\ p.session = session
  /\ p.level = state.currentLevel

\* A microgame's completion timeout fires: onComplete() is the
\* handleLevelComplete of the render the microgame was tapped in.
CompletionFires ==
  \E p \in pending :
    /\ now >= p.due
    /\ RenderDefined(state)
    /\ LET r == HandleLevelComplete(p.cl, state, now)
       IN /\ state' = r.st
          /\ timers' = r.ts
          /\ skipButtonTimer' = r.handle
          /\ levelStart' = LevelStartAfter(r.st)
    /\ solved' = FALSE
    /\ pending' = pending \ {p}
    /\ signalled' = {p}
    /\ choices' = IF Current(p) THEN Append(choices, "complete") ELSE choices
    /\ clean' = (clean /\ Current(p))
    /\ lastOp' = [op |-> IF Current(p) THEN "complete" ELSE "late",
                  level |-> p.level]
    /\ UNCHANGED microVars
    /\ UNCHANGED <<now, session>>

\* handleSkip, the Skip button (rendered only while visible)
HandleSkip ==
  /\ state.gameState = "playing"
  /\ RenderDefined(state)
  /\ state.showSkipButton
  /\ LET cl == Closure
         r == HandleLevelComplete(cl, SkipUpd(cl, state, now), now)
     IN /\ state' = r.st
        /\ timers' = r.ts
        /\ skipButtonTimer' = r.handle
        /\ levelStart' = LevelStartAfter(r.st)
  /\ solved' = FALSE
  /\ choices' = Append(choices, "skip")
  /\ lastOp' = [op |-> "skip", level |-> state.currentLevel, cl |-> Closure]
  /\ signalled' = {}
  /\ UNCHANGED microVars
  /\ UNCHANGED <<pending, now, session, clean>>

\* A restart that would carry the accumulated penalty into the next session.
ResetGameKeepsPenalty ==
  /\ state.gameState = "completed"
  /\ state' = [InitialState EXCEPT !.totalTime = state.totalTime]
  /\ timers' = ClearTimeout(timers, skipButtonTimer)
  /\ solved' = FALSE
  /\ choices' = <<>>
  /\ clean' = TRUE
  /\ lastOp' = [op |-> "restart", level |-> 0]
  /\ signalled' = {}
  /\ UNCHANGED microVars
  /\ UNCHANGED <<skipButtonTimer, pending, now, session, levelStart>>

\* resetGame, the restart button of the results screen
ResetGame ==
  /\ state.gameState = "completed"
  /\ state' = InitialState
  /\ timers' = ClearTimeout(timers, skipButtonTimer)
  /\ solved' = FALSE
  /\ choices' = <<>>
  /\ clean' = TRUE
  /\ lastOp' = [op |-> "restart", level |-> 0]
  /\ signalled' = {}
  /\ UNCHANGED microVars
  /\ UNCHANGED <<skipButtonTimer, pending, now, session, levelStart>>

\* Time passes, up to the next timeout that is due: a timeout fires at the
\* clock reading it was scheduled for, before the clock moves on.
DueTimes == {x.due : x \in pending \cup timers}

\* The clock readings at which the player may act next: a full skip delay
\* from now, or the moment the mounted microgame starts to accept input.
PlayerTimes ==
  {now + TickMs} \cup
    (IF state.gameState = "playing" /\ RenderDefined(state)
     THEN {levelStart + InputDelay(state.currentLevel)} ELSE {})

Tick ==
  /\ RenderDefined(state) => \A d \in DueTimes : d > now
  /\ \E t \in PlayerTimes \cup DueTimes :
       /\ t > now
       /\ t <= MaxTime
       /\ \A d \in DueTimes : d > now => t <= d
       /\ now' = t
  /\ lastOp' = [op |-> "tick", level |-> 0]
  /\ signalled' = {}
  /\ UNCHANGED microVars
  /\ UNCHANGED <<state, skipButtonTimer, timers, pending, solved, session,
                 levelStart, choices, clean>>

\* A microgame invokes the onComplete it was given a second time, right
\* after its completion timeout has fired (the container has no guard).
SecondInvocation ==
  \E p \in signalled :
    /\ RenderDefined(state)
    /\ LET r == HandleLevelComplete(p.cl, state, now)
       IN /\ state' = r.st
          /\ timers' = r.ts
          /\ skipButtonTimer' = r.handle
          /\ levelStart' = LevelStartAfter(r.st)
    /\ solved' = FALSE
    /\ signalled' = {}
    /\ clean' = FALSE
    /\ lastOp' = [op |-> "dup", level |-> p.level]
    /\ UNCHANGED microVars
    /\ UNCHANGED <<pending, now, session, choices>>

Next ==
  \/ StartGame
  \/ SkipTimerFires
  \/ Solve
  \/ CompletionFires
  \/ HandleSkip
  \/ ResetGame
  \/ Tick

Spec == Init /\ [][Next]_vars

\* The Skip button is activated a second time before the render that
\* follows the first activation: the same handleSkip closure runs again, on
\* the state the first run left. No render was committed in between, so
\* the effect cleanup has not run for the first run's timer, which stays
\* pending.
SecondSkipActivation ==
  /\ lastOp.op = "skip"
  /\ LET cl == lastOp.cl
         r == HandleLevelComplete(cl, SkipUpd(cl, state, now), now)
     IN /\ state' = r.st
        /\ timers' = r.ts \cup {tm \in timers : tm.id = skipButtonTimer}
        /\ skipButtonTimer' = r.handle
        /\ levelStart' = LevelStartAfter(r.st)
  /\ solved' = FALSE
  /\ choices' = Append(choices, "skip")
  /\ lastOp' = [op |-> "skip2", level |-> lastOp.level]
  /\ signalled' = {}
  /\ clean' = FALSE
  /\ UNCHANGED microVars
  /\ UNCHANGED <<pending, now, session>>

\* The program with timeouts that fire when due, a clock that goes on, and
\* a player who uses the Skip button whenever it keeps being offered.
SpecSkipping ==
  /\ Init
  /\ [][Next]_vars
  /\ WF_vars(Tick)
  /\ WF_vars(SkipTimerFires)
  /\ WF_vars(CompletionFires)
  /\ SF_vars(HandleSkip)

\* The same program with a Skip button that may be activated twice before
\* the next render.
NextDoubleSkip ==
  \/ Next
  \/ SecondSkipActivation

SpecDoubleSkip == Init /\ [][NextDoubleSkip]_vars

\* The same program with a microgame that may repeat its completion signal.
NextDup ==
  \/ Next
  \/ SecondInvocation

SpecDup == Init /\ [][NextDup]_vars

\* ----------------------------------------------- a microgame on its own
\* A microgame instance with an arbitrary parent: it receives taps, its
\* timeouts fire, and it invokes the onComplete it was given.  A tap
\* handler is the closure of the committed render (React commits the state
\* of a click before the next click is dispatched).

\* A setTimeout call: the callback, the time left until it is due and the
\* index its callback uses (None when it uses none).
Timeout(cb, delay, arg) == [cb |-> cb, left |-> delay, arg |-> arg]

\* The timeout at position i is the next to fire: it is due, and nothing
\* scheduled before it is.
CanFire(i) ==
  /\ timeouts[i].left = 0
  /\ \A j \in 1..(i - 1) : timeouts[j].left > 0

\* The step of the instance's clock: every delay of the component is a
\* multiple of it, and a player's taps are at least this far apart.
Granule(k) == IF k = "SpeedTap" THEN 50 ELSE 100

\* The parent replaces the instance when it is told of the completion
\* (the container's key changes, or the results screen is shown).
Mounted == completions = 0

RemoveAt(seq, i) == SubSeq(seq, 1, i - 1) \o SubSeq(seq, i + 1, Len(seq))

\* One tap as the log keeps it: whether it was on the right index, and
\* whether the handler went past its guard.
LogTap(correct, accepted) ==
  Append(tapLog, [correct |-> correct, accepted |-> accepted])

\* DirectionMatch.generateGame: four distinct directions are shuffled over
\* the four arrows, so exactly one arrow is the target.
DirectionMatchGame(t) ==
  [arrows |-> [i \in 0..(NUM_ARROWS - 1) |-> [isTarget |-> i = t]],
   feedback |-> None]

\* ColorMatch.generateGame: the target colour and three other colours.
ColorMatchGame(t) ==
  [options |-> [i \in 0..(NUM_OPTIONS - 1) |-> [isCorrect |-> i = t]],
   selectedIndex |-> None,
   feedback |-> "none"]

\* OddOneOut.generateGame
OddOneOutGame(t) ==
  [items |-> [i \in 0..(NUM_ITEMS - 1) |-> [isOdd |-> i = t]],
   oddItemIndex |-> t,
   feedback |-> None]

\* DirectionMatch.handleArrowTap
HandleArrowTap ==
  /\ kind = "DirectionMatch"
  /\ Mounted
  /\ ~tapped
  /\ tapped' = TRUE
  /\ Len(tapLog) < MaxTaps
  /\ \E index \in DOMAIN gameState.arrows :
       LET arrow == gameState.arrows[index]
       IN IF gameState.feedback # None
          THEN /\ tapLog' = LogTap(arrow.isTarget, FALSE)
               /\ UNCHANGED <<gameState, timeouts>>
          ELSE /\ gameState' = [gameState EXCEPT !.feedback = index]
               /\ timeouts' =
                    Append(timeouts,
                           IF arrow.isTarget
                           THEN Timeout("onComplete",
                                        DIRECTION_MATCH_DELAY_MS, None)
                           ELSE Timeout("clearFeedback",
                                        DIRECTION_MATCH_CLEAR_MS, None))
               /\ tapLog' = LogTap(arrow.isTarget, TRUE)
  /\ UNCHANGED <<kind, completions>>
  /\ UNCHANGED containerVars

\* A handleOptionTap without the guard on the feedback being shown.
HandleOptionTapNoGuard ==
  /\ kind = "ColorMatch"
  /\ Mounted
  /\ ~tapped
  /\ tapped' = TRUE
  /\ Len(tapLog) < MaxTaps
  /\ \E index \in DOMAIN gameState.options :
       LET option == gameState.options[index]
       IN /\ gameState' =
               [gameState EXCEPT
                  !.selectedIndex = index,
                  !.feedback = IF option.isCorrect
                               THEN "correct" ELSE "wrong"]
          /\ timeouts' =
               Append(timeouts,
                      IF option.isCorrect
                      THEN Timeout("onComplete", COLOR_MATCH_DELAY_MS, None)
                      ELSE Timeout("clearFeedback",
                                   COLOR_MATCH_CLEAR_MS, None))
          /\ tapLog' = LogTap(option.isCorrect, TRUE)
  /\ UNCHANGED <<kind, completions>>
  /\ UNCHANGED containerVars

\* ColorMatch.handleOptionTap
HandleOptionTap ==
  /\ kind = "ColorMatch"
  /\ Mounted
  /\ ~tapped
  /\ tapped' = TRUE
  /\ Len(tapLog) < MaxTaps
  /\ \E index \in DOMAIN gameState.options :
       LET option == gameState.options[index]
       IN IF gameState.feedback # "none"
          THEN /\ tapLog' = LogTap(option.isCorrect, FALSE)
               /\ UNCHANGED <<gameState, timeouts>>
          ELSE /\ gameState' =
                    [gameState EXCEPT
                       !.selectedIndex = index,
                       !.feedback = IF option.isCorrect
                                    THEN "correct" ELSE "wrong"]
               /\ timeouts' =
                    Append(timeouts,
                           IF option.isCorrect
                           THEN Timeout("onComplete",
                                        COLOR_MATCH_DELAY_MS, None)
                           ELSE Timeout("clearFeedback",
                                        COLOR_MATCH_CLEAR_MS, None))
               /\ tapLog' = LogTap(option.isCorrect, TRUE)
  /\ UNCHANGED <<kind, completions>>
  /\ UNCHANGED containerVars

\* handleItemTap whose wrong tap never clears its feedback
HandleItemTapNoClear ==
  /\ kind = "OddOneOut"
  /\ Mounted
  /\ ~tapped
  /\ tapped' = TRUE
  /\ Len(tapLog) < MaxTaps
  /\ \E index \in DOMAIN gameState.items :
       LET item == gameState.items[index]
       IN IF gameState.feedback # None
          THEN /\ tapLog' = LogTap(item.isOdd, FALSE)
               /\ UNCHANGED <<gameState, timeouts>>
          ELSE /\ gameState' = [gameState EXCEPT !.feedback = index]
               /\ timeouts' =
                    IF item.isOdd
                    THEN Append(timeouts,
                                Timeout("onComplete",
                                        ODD_ONE_OUT_DELAY_MS, None))
                    ELSE timeouts
               /\ tapLog' = LogTap(item.isOdd, TRUE)
  /\ UNCHANGED <<kind, completions>>
  /\ UNCHANGED containerVars

\* OddOneOut.handleItemTap
HandleItemTap ==
  /\ kind = "OddOneOut"
  /\ Mounted
  /\ ~tapped
  /\ tapped' = TRUE
  /\ Len(tapLog) < MaxTaps
  /\ \E index \in DOMAIN gameState.items :
       LET item == gameState.items[index]
       IN IF gameState.feedback # None
          THEN /\ tapLog' = LogTap(item.isOdd, FALSE)
               /\ UNCHANGED <<gameState, timeouts>>
          ELSE /\ gameState' = [gameState EXCEPT !.feedback = index]
               /\ timeouts' =
                    Append(timeouts,
                           IF item.isOdd
                           THEN Timeout("onComplete",
                                        ODD_ONE_OUT_DELAY_MS, None)
                           ELSE Timeout("clearFeedback",
                                        ODD_ONE_OUT_CLEAR_MS, None))
               /\ tapLog' = LogTap(item.isOdd, TRUE)
  /\ UNCHANGED <<kind, completions>>
  /\ UNCHANGED containerVars

\* SpeedTap.generateGame, with the random initial target at t
SpeedTapGame(t) ==
  [buttons |-> [i \in 0..(NUM_BUTTONS - 1) |-> [isTarget |-> i = t]],
   targetIndex |-> t,
   tapCount |-> 0,
   requiredTaps |-> REQUIRED_TAPS,
   wrongTapFeedback |-> None,
   correctTapFeedback |-> FALSE]

\* A selectNewTarget that may draw the current target again.
SelectNewTargetAny(currentTargetIndex) ==
  0..(NUM_BUTTONS - 1)

\* SpeedTap.selectNewTarget: any button but the current target
SelectNewTarget(currentTargetIndex) ==
  (0..(NUM_BUTTONS - 1)) \ {currentTargetIndex}

\* handleButtonTap whose wrong tap resets the progress.
SpeedTapHandleButtonTapResets ==
  /\ kind = "SpeedTap"
  /\ Mounted
  /\ ~tapped
  /\ tapped' = TRUE
  /\ \E index \in DOMAIN gameState.buttons :
       LET button == gameState.buttons[index]
           newCount == gameState.tapCount + 1
           shouldChangeTarget ==
             /\ newCount % TARGET_CHANGE_EVERY = 0
             /\ newCount < gameState.requiredTaps
           done == newCount >= gameState.requiredTaps
       IN IF button.isTarget
          THEN /\ newCount <= gameState.requiredTaps + MaxExtraTaps
               /\ tapLog' = <<[correct |-> TRUE, accepted |-> TRUE]>>
               /\ \E newTargetIndex \in
                       IF shouldChangeTarget
                       THEN SelectNewTarget(gameState.targetIndex)
                       ELSE {gameState.targetIndex} :
                    gameState' =
                      [gameState EXCEPT
                         !.buttons = [i \in DOMAIN gameState.buttons |->
                                        [isTarget |-> i = newTargetIndex]],
                         !.targetIndex = newTargetIndex,
                         !.tapCount = newCount,
                         !.correctTapFeedback = TRUE]
               /\ timeouts' =
                    Append(timeouts,
                           Timeout("clearCorrect",
                                   SPEED_TAP_CORRECT_CLEAR_MS, None))
                      \o (IF done
                          THEN <<Timeout("onComplete",
                                         SPEED_TAP_DELAY_MS, None)>>
                          ELSE <<>>)
          ELSE /\ tapLog' = <<[correct |-> FALSE, accepted |-> TRUE]>>
               /\ gameState' = [gameState EXCEPT !.wrongTapFeedback = index,
                                                 !.tapCount = 0]
               /\ timeouts' =
                    Append(timeouts,
                           Timeout("clearWrong",
                                   SPEED_TAP_WRONG_CLEAR_MS, None))
  /\ Len(timeouts') <= MaxTimeouts
  /\ UNCHANGED <<kind, completions>>
  /\ UNCHANGED containerVars

\* SpeedTap.handleButtonTap
SpeedTapHandleButtonTap ==
  /\ kind = "SpeedTap"
  /\ Mounted
  /\ ~tapped
  /\ tapped' = TRUE
  /\ \E index \in DOMAIN gameState.buttons :
       LET button == gameState.buttons[index]
           newCount == gameState.tapCount + 1
           shouldChangeTarget ==
             /\ newCount % TARGET_CHANGE_EVERY = 0
             /\ newCount < gameState.requiredTaps
           done == newCount >= gameState.requiredTaps
       IN IF button.isTarget
          THEN /\ newCount <= gameState.requiredTaps + MaxExtraTaps
               /\ tapLog' = <<[correct |-> TRUE, accepted |-> TRUE]>>
               /\ \E newTargetIndex \in
                       IF shouldChangeTarget
                       THEN SelectNewTarget(gameState.targetIndex)
                       ELSE {gameState.targetIndex} :
                    gameState' =
                      [gameState EXCEPT
                         !.buttons = [i \in DOMAIN gameState.buttons |->
                                        [isTarget |-> i = newTargetIndex]],
                         !.targetIndex = newTargetIndex,
                         !.tapCount = newCount,
                         !.correctTapFeedback = TRUE]
               /\ timeouts' =
                    Append(timeouts,
                           Timeout("clearCorrect",
                                   SPEED_TAP_CORRECT_CLEAR_MS, None))
                      \o (IF done
                          THEN <<Timeout("onComplete",
                                         SPEED_TAP_DELAY_MS, None)>>
                          ELSE <<>>)
          ELSE /\ tapLog' = <<[correct |-> FALSE, accepted |-> TRUE]>>
               /\ gameState' = [gameState EXCEPT !.wrongTapFeedback = index]
               /\ timeouts' =
                    Append(timeouts,
                           Timeout("clearWrong",
                                   SPEED_TAP_WRONG_CLEAR_MS, None))
  /\ Len(timeouts') <= MaxTimeouts
  /\ UNCHANGED <<kind, completions>>
  /\ UNCHANGED containerVars

MemoryButtons == 0..(NUM_MEMORY_BUTTONS - 1)

\* generateSequence(4) draws each element at random, repeats allowed: one
\* sequence of distinct buttons and one with a repeated button.
SequenceChoices == {<<0, 1, 2, 3>>, <<1, 1, 0, 2>>}

\* SequenceMemory after its mount effect: the sequence is set and
\* playSequence has begun to show it.
SequenceMemoryGame(sequence) ==
  [sequence |-> sequence,
   playerSequence |-> <<>>,
   isPlaying |-> TRUE,
   currentFlash |-> None,
   phase |-> "showing",
   buttonFeedback |-> [b \in MemoryButtons |-> "none"]]

\* A playSequence that opens the input phase when the last flash goes off,
\* before its closing pause.
PlaySequenceStepEarlyInput(g, t) ==
  CASE t.cb = "flashOn" -> [g EXCEPT !.currentFlash = g.sequence[t.arg]]
    [] t.cb = "flashOff" /\ t.arg < Len(g.sequence)
         -> [g EXCEPT !.currentFlash = None]
    [] t.cb = "flashOff" /\ t.arg >= Len(g.sequence)
         -> [g EXCEPT !.phase = "input",
                      !.isPlaying = FALSE,
                      !.currentFlash = None,
                      !.playerSequence = <<>>]
    [] t.cb = "inputPhase" -> [g EXCEPT !.phase = "input",
                                        !.isPlaying = FALSE,
                                        !.currentFlash = None,
                                        !.playerSequence = <<>>]
    [] OTHER -> g

\* playSequence: the state update made when one of its delays has passed.
\* t.arg is the position in the sequence of the flash the delay belongs to.
PlaySequenceStep(g, t) ==
  CASE t.cb = "flashOn" -> [g EXCEPT !.currentFlash = g.sequence[t.arg]]
    [] t.cb = "flashOff" -> [g EXCEPT !.currentFlash = None]
    [] t.cb = "inputPhase" -> [g EXCEPT !.phase = "input",
                                        !.isPlaying = FALSE,
                                        !.currentFlash = None,
                                        !.playerSequence = <<>>]
    [] OTHER -> g

\* playSequence: the delay it awaits next, after the delay t has passed.
PlaySequenceAwaits(g, t) ==
  CASE t.cb = "flashOn" -> <<Timeout("flashOff", PLAYBACK_FLASH_MS, t.arg)>>
    [] t.cb = "flashOff" /\ t.arg < Len(g.sequence)
         -> <<Timeout("flashOn", PLAYBACK_GAP_MS, t.arg + 1)>>
    [] t.cb = "flashOff" /\ t.arg >= Len(g.sequence)
         -> <<Timeout("pause", PLAYBACK_GAP_MS, None)>>
    [] t.cb = "pause" -> <<Timeout("inputPhase", PLAYBACK_PAUSE_MS, None)>>
    [] OTHER -> <<>>

\* The log of a SequenceMemory keeps its last SEQUENCE_LENGTH taps.
LogRecentTap(correct, accepted) ==
  LET log == LogTap(correct, accepted)
  IN IF Len(log) > SEQUENCE_LENGTH THEN Tail(log) ELSE log

\* handleButtonTap that compares every tap with the first button of the
\* sequence.
MemoryHandleButtonTapFirstOnly ==
  /\ kind = "SequenceMemory"
  /\ Mounted
  /\ ~tapped
  /\ tapped' = TRUE
  /\ \E buttonIndex \in MemoryButtons :
       LET currentStep == Len(gameState.playerSequence)
           expectedButton ==
             IF currentStep < Len(gameState.sequence)
             THEN gameState.sequence[1] ELSE None
           newPlayerSequence == Append(gameState.playerSequence, buttonIndex)
           complete == Len(newPlayerSequence) = Len(gameState.sequence)
       IN IF gameState.phase # "input" \/ gameState.isPlaying
          THEN /\ tapLog' = LogRecentTap(buttonIndex = expectedButton, FALSE)
               /\ UNCHANGED <<gameState, timeouts>>
          ELSE IF buttonIndex = expectedButton
          THEN /\ gameState' =
                    [gameState EXCEPT
                       !.playerSequence = newPlayerSequence,
                       !.buttonFeedback[buttonIndex] = "correct"]
               /\ timeouts' =
                    Append(timeouts,
                           Timeout("clearButton",
                                   MEMORY_FEEDBACK_CLEAR_MS, buttonIndex))
                      \o (IF complete
                          THEN <<Timeout("onComplete",
                                         SEQUENCE_MEMORY_DELAY_MS, None)>>
                          ELSE <<>>)
               /\ tapLog' = LogRecentTap(TRUE, TRUE)
          ELSE /\ gameState' =
                    [gameState EXCEPT !.buttonFeedback[buttonIndex] = "wrong"]
               /\ timeouts' =
                    Append(timeouts,
                           Timeout("resetSequence",
                                   MEMORY_RESET_MS, None))
               /\ tapLog' = LogRecentTap(FALSE, TRUE)
  /\ UNCHANGED <<kind, completions>>
  /\ UNCHANGED containerVars

\* SequenceMemory.handleButtonTap
MemoryHandleButtonTap ==
  /\ kind = "SequenceMemory"
  /\ Mounted
  /\ ~tapped
  /\ tapped' = TRUE
  /\ \E buttonIndex \in MemoryButtons :
       LET currentStep == Len(gameState.playerSequence)
           expectedButton ==
             IF currentStep < Len(gameState.sequence)
             THEN gameState.sequence[currentStep + 1] ELSE None
           newPlayerSequence == Append(gameState.playerSequence, buttonIndex)
           complete == Len(newPlayerSequence) = Len(gameState.sequence)
       IN IF gameState.phase # "input" \/ gameState.isPlaying
          THEN /\ tapLog' = LogRecentTap(buttonIndex = expectedButton, FALSE)
               /\ UNCHANGED <<gameState, timeouts>>
          ELSE IF buttonIndex = expectedButton
          THEN /\ gameState' =
                    [gameState EXCEPT
                       !.playerSequence = newPlayerSequence,
                       !.buttonFeedback[buttonIndex] = "correct"]
               /\ timeouts' =
                    Append(timeouts,
                           Timeout("clearButton",
                                   MEMORY_FEEDBACK_CLEAR_MS, buttonIndex))
                      \o (IF complete
                          THEN <<Timeout("onComplete",
                                         SEQUENCE_MEMORY_DELAY_MS, None)>>
                          ELSE <<>>)
               /\ tapLog' = LogRecentTap(TRUE, TRUE)
          ELSE /\ gameState' =
                    [gameState EXCEPT !.buttonFeedback[buttonIndex] = "wrong"]
               /\ timeouts' =
                    Append(timeouts,
                           Timeout("resetSequence",
                                   MEMORY_RESET_MS, None))
               /\ tapLog' = LogRecentTap(FALSE, TRUE)
  /\ UNCHANGED <<kind, completions>>
  /\ UNCHANGED containerVars

\* A reset after a wrong tap that would draw a new sequence.
AfterTimeoutRegenerates(g, t) ==
  CASE t.cb = "clearFeedback" /\ kind = "ColorMatch"
         -> [g EXCEPT !.feedback = "none", !.selectedIndex = None]
    [] t.cb = "clearFeedback" /\ kind \in {"DirectionMatch", "OddOneOut"}
         -> [g EXCEPT !.feedback = None]
    [] t.cb = "clearCorrect" -> [g EXCEPT !.correctTapFeedback = FALSE]
    [] t.cb = "clearWrong" -> [g EXCEPT !.wrongTapFeedback = None]
    [] t.cb = "clearButton" -> [g EXCEPT !.buttonFeedback[t.arg] = "none"]
    [] t.cb = "resetSequence"
         -> [g EXCEPT !.sequence = CHOOSE q \in SequenceChoices :
                                     q # g.sequence,
                      !.playerSequence = <<>>,
                      !.buttonFeedback = [b \in MemoryButtons |-> "none"]]
    [] OTHER -> PlaySequenceStep(g, t)

\* The state a timeout's callback commits (onComplete sets none of it).
AfterTimeout(g, t) ==
  CASE t.cb = "clearFeedback" /\ kind = "ColorMatch"
         -> [g EXCEPT !.feedback = "none", !.selectedIndex = None]
    [] t.cb = "clearFeedback" /\ kind \in {"DirectionMatch", "OddOneOut"}
         -> [g EXCEPT !.feedback = None]
    [] t.cb = "clearCorrect" -> [g EXCEPT !.correctTapFeedback = FALSE]
    [] t.cb = "clearWrong" -> [g EXCEPT !.wrongTapFeedback = None]
    [] t.cb = "clearButton" -> [g EXCEPT !.buttonFeedback[t.arg] = "none"]
    [] t.cb = "resetSequence"
         -> [g EXCEPT !.playerSequence = <<>>,
                      !.buttonFeedback = [b \in MemoryButtons |-> "none"]]
    [] OTHER -> PlaySequenceStep(g, t)

\* A pending timeout of the instance fires.
TimeoutFires ==
  /\ kind # "none"
  /\ \E i \in DOMAIN timeouts :
       /\ CanFire(i)
       /\ gameState' = AfterTimeout(gameState, timeouts[i])
       /\ completions' = IF timeouts[i].cb = "onComplete"
                         THEN completions + 1 ELSE completions
       /\ timeouts' = RemoveAt(timeouts, i)
                        \o PlaySequenceAwaits(gameState, timeouts[i])
  /\ UNCHANGED <<kind, tapLog, tapped>>
  /\ UNCHANGED containerVars

\* The instance's clock moves on by one step; a timeout that is due fires
\* before it does.
TimePasses ==
  /\ kind # "none"
  /\ \A i \in DOMAIN timeouts : timeouts[i].left >= Granule(kind)
  /\ timeouts' = [i \in DOMAIN timeouts |->
                    [timeouts[i] EXCEPT !.left = @ - Granule(kind)]]
  /\ tapped' = FALSE
  /\ UNCHANGED <<kind, gameState, completions, tapLog>>
  /\ UNCHANGED containerVars

\* A ColorMatch, DirectionMatch or OddOneOut instance after its mount
\* effect, with the target at any position.
InitTapGame ==
  /\ InitContainer
  /\ kind \in {"DirectionMatch", "ColorMatch", "OddOneOut"}
  /\ gameState \in
       CASE kind = "DirectionMatch"
              -> {DirectionMatchGame(t) : t \in 0..(NUM_ARROWS - 1)}
         [] kind = "ColorMatch"
              -> {ColorMatchGame(t) : t \in 0..(NUM_OPTIONS - 1)}
         [] kind = "OddOneOut"
              -> {OddOneOutGame(t) : t \in 0..(NUM_ITEMS - 1)}
  /\ timeouts = <<>>
  /\ completions = 0
  /\ tapLog = <<>>
  /\ tapped = FALSE

NextTapGame ==
  \/ HandleArrowTap
  \/ HandleOptionTap
  \/ HandleItemTap
  \/ TimeoutFires
  \/ TimePasses

SpecTapGame == InitTapGame /\ [][NextTapGame]_vars

\* A SpeedTap instance after its mount effect.
InitSpeedTap ==
  /\ InitContainer
  /\ kind = "SpeedTap"
  /\ gameState \in {SpeedTapGame(t) : t \in 0..(NUM_BUTTONS - 1)}
  /\ timeouts = <<>>
  /\ completions = 0
  /\ tapLog = <<>>
  /\ tapped = FALSE

NextSpeedTap ==
  \/ SpeedTapHandleButtonTap
  \/ TimeoutFires
  \/ TimePasses

SpecSpeedTap == InitSpeedTap /\ [][NextSpeedTap]_vars

\* A SequenceMemory instance after its mount effect.
InitSequenceMemory ==
  /\ InitContainer
  /\ kind = "SequenceMemory"
  /\ gameState \in {SequenceMemoryGame(q) : q \in SequenceChoices}
  /\ timeouts = <<Timeout("flashOn", PLAYBACK_INITIAL_MS, 1)>>
  /\ completions = 0
  /\ tapLog = <<>>
  /\ tapped = FALSE

NextSequenceMemory ==
  \/ MemoryHandleButtonTap
  \/ TimeoutFires
  \/ TimePasses

SpecSequenceMemory == InitSequenceMemory /\ [][NextSequenceMemory]_vars

\* Any of the five microgames, with the browser's guarantee that a timeout
\* that is due fires and that time goes on.
InitMicrogame ==
  \/ InitTapGame
  \/ InitSpeedTap
  \/ InitSequenceMemory

NextMicrogame ==
  \/ HandleArrowTap
  \/ HandleOptionTap
  \/ HandleItemTap
  \/ SpeedTapHandleButtonTap
  \/ MemoryHandleButtonTap
  \/ TimeoutFires
  \/ TimePasses

SpecMicrogameFair ==
  /\ InitMicrogame
  /\ [][NextMicrogame]_vars
  /\ WF_vars(TimeoutFires)
  /\ WF_vars(TimePasses)

\* ------------------------------------------------------ puzzle generators
\* DirectionMatch.tsx: ALL_DIRECTIONS and the rotation DIRECTIONS gives each
ALL_DIRECTIONS == <<"up", "down", "left", "right">>

Rotation(direction) ==
  CASE direction = "up" -> 0
    [] direction = "right" -> 90
    [] direction = "down" -> 180
    [] direction = "left" -> 270

\* ColorMatch: COLORS
COLORS ==
  <<"#EF4444", "#3B82F6", "#10B981", "#F59E0B",
    "#8B5CF6", "#EC4899", "#14B8A6", "#F97316">>

\* OddOneOut: SHAPE_SETS
SHAPE_SETS ==
  <<[normal |-> [shape |-> "circle", color |-> "#3B82F6", size |-> 60,
                 rotation |-> 0],
     odd |-> [shape |-> "circle", color |-> "#EF4444", size |-> 60,
              rotation |-> 0]],
    [normal |-> [shape |-> "square", color |-> "#10B981", size |-> 60,
                 rotation |-> 0],
     odd |-> [shape |-> "circle", color |-> "#10B981", size |-> 60,
              rotation |-> 0]],
    [normal |-> [shape |-> "triangle", color |-> "#F59E0B", size |-> 60,
                 rotation |-> 0],
     odd |-> [shape |-> "triangle", color |-> "#F59E0B", size |-> 60,
              rotation |-> 180]],
    [normal |-> [shape |-> "star", color |-> "#8B5CF6", size |-> 60,
                 rotation |-> 0],
     odd |-> [shape |-> "star", color |-> "#8B5CF6", size |-> 80,
              rotation |-> 0]]>>

\* The ways to draw n different positions out of m, in order.
Injections(n, m) ==
  {f \in [1..n -> 1..m] : \A i, j \in 1..n : i # j => f[i] # f[j]}

\* A shuffle that could repeat an element and lose another.
ShufflesWithRepeats(array) ==
  {[i \in 1..Len(array) |-> array[f[i]]] :
     f \in [1..Len(array) -> 1..Len(array)]}

\* [...array].sort(() => Math.random() - 0.5): sort moves the elements of
\* the array around, and with a random comparator any order may result.
Shuffles(array) ==
  {[i \in 1..Len(array) |-> array[f[i]]] :
     f \in Injections(Len(array), Len(array))}

\* The first NUM_OPTIONS elements of a shuffled COLORS (generateGame reads
\* shuffled[0] and shuffled.slice(1, 4) only).
ShuffledColorHeads ==
  {[i \in 1..NUM_OPTIONS |-> COLORS[f[i]]] :
     f \in Injections(NUM_OPTIONS, Len(COLORS))}

\* An array with the JS indices 0..length-1.
ZeroBased(array) == [i \in 0..(Len(array) - 1) |-> array[i + 1]]

\* DirectionMatch.generateGame, for the two random draws
DirectionMatchGenerateGame(targetDirection, shuffledDirections) ==
  [targetDirection |-> targetDirection,
   arrows |-> [index \in 0..(Len(shuffledDirections) - 1) |->
                 LET direction == shuffledDirections[index + 1]
                 IN [id |-> index,
                     direction |-> direction,
                     rotation |-> Rotation(direction),
                     isTarget |-> direction = targetDirection]],
   feedback |-> None]

\* ColorMatch.generateGame: the options before they are shuffled
ColorMatchOptions(shuffled) ==
  <<[color |-> shuffled[1], isCorrect |-> TRUE],
    [color |-> shuffled[2], isCorrect |-> FALSE],
    [color |-> shuffled[3], isCorrect |-> FALSE],
    [color |-> shuffled[4], isCorrect |-> FALSE]>>

\* ColorMatch.generateGame, for a shuffle and the shuffled options
ColorMatchGenerateGame(shuffled, options) ==
  [targetColor |-> shuffled[1],
   options |-> ZeroBased(options),
   selectedIndex |-> None]

\* OddOneOut.generateGame, for the two random draws
OddOneOutGenerateGame(set, oddItemIndex) ==
  [items |-> [index \in 0..(NUM_ITEMS - 1) |->
                LET config == IF index = oddItemIndex
                              THEN set.odd ELSE set.normal
                IN [id |-> index,
                    shape |-> config.shape,
                    color |-> config.color,
                    size |-> config.size,
                    rotation |-> config.rotation,
                    isOdd |-> index = oddItemIndex]],
   oddItemIndex |-> oddItemIndex,
   feedback |-> None]

\* The mount effect of DirectionMatch: setGameState(generateGame())
DirectionMatchMount ==
  /\ kind = "DirectionMatch"
  /\ DOMAIN gameState.arrows = {}
  /\ \E t \in 1..Len(ALL_DIRECTIONS) :
       \E shuffledDirections \in Shuffles(ALL_DIRECTIONS) :
         gameState' = DirectionMatchGenerateGame(ALL_DIRECTIONS[t],
                                                 shuffledDirections)
  /\ UNCHANGED <<kind, timeouts, completions, tapLog, tapped>>
  /\ UNCHANGED containerVars

\* The mount effect of ColorMatch
ColorMatchMount ==
  /\ kind = "ColorMatch"
  /\ DOMAIN gameState.options = {}
  /\ \E shuffled \in ShuffledColorHeads :
       \E options \in Shuffles(ColorMatchOptions(shuffled)) :
         gameState' = ColorMatchGenerateGame(shuffled, options)
  /\ UNCHANGED <<kind, timeouts, completions, tapLog, tapped>>
  /\ UNCHANGED containerVars

\* The mount effect of OddOneOut
OddOneOutMount ==
  /\ kind = "OddOneOut"
  /\ DOMAIN gameState.items = {}
  /\ \E s \in 1..Len(SHAPE_SETS) :
       \E oddItemIndex \in 0..(NUM_ITEMS - 1) :
         gameState' = OddOneOutGenerateGame(SHAPE_SETS[s], oddItemIndex)
  /\ UNCHANGED <<kind, timeouts, completions, tapLog, tapped>>
  /\ UNCHANGED containerVars

\* The three games as useState creates them, before the mount effect.
InitGenerate ==
  /\ InitContainer
  /\ kind \in {"DirectionMatch", "ColorMatch", "OddOneOut"}
  /\ gameState =
       CASE kind = "DirectionMatch"
              -> [targetDirection |-> "up", arrows |-> <<>>,
                  feedback |-> None]
         [] kind = "ColorMatch"
              -> [targetColor |-> "", options |-> <<>>,
                  selectedIndex |-> None]
         [] kind = "OddOneOut"
              -> [items |-> <<>>, oddItemIndex |-> 0, feedback |-> None]
  /\ timeouts = <<>>
  /\ completions = 0
  /\ tapLog = <<>>
  /\ tapped = FALSE

NextGenerate ==
  \/ DirectionMatchMount
  \/ ColorMatchMount
  \/ OddOneOutMount

SpecGenerate == InitGenerate /\ [][NextGenerate]_vars

\* ----------------------------------------------------------- formatTime
\* Strings are sequences of one-character strings.
DigitChars == <<"0", "1", "2", "3", "4", "5", "6", "7", "8", "9">>

\* Number.prototype.toString() of a non-negative integer
RECURSIVE NumberToString(_)
NumberToString(n) ==
  IF n < 10 THEN <<DigitChars[n + 1]>>
  ELSE NumberToString(n \div 10) \o <<DigitChars[(n % 10) + 1]>>

\* A padStart that leaves the string as it is.
PadStartNone(str, targetLength, fill) == str

\* String.prototype.padStart with a fill string of one character
RECURSIVE PadStart(_, _, _)
PadStart(str, targetLength, fill) ==
  IF Len(str) >= targetLength THEN str
  ELSE PadStart(<<fill>> \o str, targetLength, fill)

\* Timer.formatTime (milliseconds is a non-negative integer, so
\* Math.floor(a / b) is the integer quotient)
TimerFormatTime(milliseconds) ==
  LET totalSeconds == milliseconds \div 1000
      minutes == totalSeconds \div 60
      seconds == totalSeconds % 60
      ms == (milliseconds % 1000) \div 10
  IN PadStart(NumberToString(minutes), 2, "0") \o <<":">>
       \o PadStart(NumberToString(seconds), 2, "0") \o <<".">>
       \o PadStart(NumberToString(ms), 2, "0")

\* ResultsScreen.formatTime
ResultsFormatTime(milliseconds) ==
  LET totalSeconds == milliseconds \div 1000
      minutes == totalSeconds \div 60
      seconds == totalSeconds % 60
      ms == (milliseconds % 1000) \div 10
  IN PadStart(NumberToString(minutes), 2, "0") \o <<":">>
       \o PadStart(NumberToString(seconds), 2, "0") \o <<".">>
       \o PadStart(NumberToString(ms), 2, "0")

\* The millisecond parts of the times that are formatted: the ends of the
\* range and both sides of every digit boundary.
MillisChoices == {0, 9, 10, 99, 100, 500, 990, 999}

\* The times that are formatted: every minute and second up to MaxMinutes
DisplayTimes ==
  {m * 60000 + sec * 1000 + r :
     m \in 0..MaxMinutes, sec \in 0..59, r \in MillisChoices}

\* A time is about to be shown by the Timer and by the ResultsScreen.
InitFormat ==
  /\ InitContainer
  /\ kind = "formatTime"
  /\ gameState \in {[milliseconds |-> t, timer |-> <<>>, results |-> <<>>] :
                       t \in DisplayTimes}
  /\ timeouts = <<>>
  /\ completions = 0
  /\ tapLog = <<>>
  /\ tapped = FALSE

\* Both components render the time.
FormatTime ==
  /\ kind = "formatTime"
  /\ gameState.timer = <<>>
  /\ gameState' =
       [gameState EXCEPT
          !.timer = TimerFormatTime(gameState.milliseconds),
          !.results = ResultsFormatTime(gameState.milliseconds)]
  /\ UNCHANGED <<kind, timeouts, completions, tapLog, tapped>>
  /\ UNCHANGED containerVars

SpecFormat == InitFormat /\ [][FormatTime]_vars

\* ----------------------------------------------------------- projections
\* ProgressTracker.getLevelStatus, for the slot at the 0-based levelIndex
GetLevelStatus(levelIndex, currentLevel, levelResults) ==
  IF levelIndex + 1 < currentLevel
  THEN LET result == levelResults[levelIndex + 1]
       IN IF result.completed THEN "completed"
          ELSE IF result.skipped THEN "skipped" ELSE "pending"
  ELSE IF levelIndex + 1 = currentLevel THEN "current"
  ELSE "pending"

\* The slots the ProgressTracker renders (indices 0 to 4)
Slots == 0..(NumLevels - 1)

\* ResultsScreen: the aggregates it shows next to formatTime(totalTime)
CompletedLevels(levelResults) ==
  Cardinality({i \in DOMAIN levelResults : levelResults[i].completed})

SkippedLevels(levelResults) ==
  Cardinality({i \in DOMAIN levelResults : levelResults[i].skipped})

TotalPenalties(levelResults) == SkippedLevels(levelResults) * SKIP_PENALTY_MS

\* ------------------------------------------------------------ properties
NumSkips == Cardinality({i \in DOMAIN choices : choices[i] = "skip"})

Recorded(r, choice) ==
  /\ r.completed = (choice = "complete")
  /\ r.skipped = (choice = "skip")

\* The step that produced this state finished the session.
JustFinished ==
  /\ state.gameState = "completed"
  /\ lastOp.op \in {"complete", "skip"}

\* C1: with one completion or skip per level and no late or repeated
\* signal, the completed state records every level by the choice made for
\* it, and no entry is left at the default.
C1_OutcomesMatchChoices ==
  (state.gameState = "completed" /\ clean /\ Len(choices) = NumLevels)
    => \A i \in Levels : Recorded(state.levelResults[i], choices[i])

\* C2: the state reached by skipping level i records level i as skipped,
\* not completed.
C2_SkipRecordsSkipped ==
  lastOp.op = "skip"
    => Recorded(state.levelResults[lastOp.level], "skip")

\* C3: the state reached by the completion signal of the current level i,
\* the last level included, records level i as completed, not skipped.
C3_CompleteRecordsCompleted ==
  lastOp.op = "complete"
    => Recorded(state.levelResults[lastOp.level], "complete")

\* C4: when the session finishes, totalTime is (finish timestamp -
\* startTime) plus 30000 for every level skipped in the session, hence at
\* least the accumulated penalty.
C4_FinalTimeIncludesEveryPenalty ==
  (JustFinished /\ clean)
    => /\ state.totalTime
            = (now - state.startTime) + SKIP_PENALTY_MS * NumSkips
       /\ state.totalTime >= SKIP_PENALTY_MS * NumSkips

\* C5: in every playing state totalTime is 30000 times the number of skips
\* performed so far in the session.
C5_PenaltyIsSkipsTimesPenalty ==
  state.gameState = "playing"
    => state.totalTime = SKIP_PENALTY_MS * NumSkips

\* C5 witness: a playing state after skips and a completion
C5_Witness ==
  /\ state.gameState = "playing"
  /\ NumSkips = 2
  /\ \E i \in DOMAIN choices : choices[i] = "complete"
  /\ state.totalTime = 2 * SKIP_PENALTY_MS

\* C6: while playing, currentLevel is in 1..5, so the microgame lookup is
\* defined.
C6_LevelInRangeWhilePlaying ==
  state.gameState = "playing" => state.currentLevel \in Levels

\* C7: a completion or skip of the current level k < 5 moves currentLevel
\* to k + 1; currentLevel changes only by such a step of +1 or by a return
\* to 1 through restart or start.
C7_LevelStepsByOne ==
  [][/\ (lastOp'.op \in {"complete", "skip"} /\ state.currentLevel < NumLevels)
          => state'.currentLevel = state.currentLevel + 1
     /\ state'.currentLevel # state.currentLevel
          => \/ state'.currentLevel = state.currentLevel + 1
             \/ /\ state'.currentLevel = 1
                /\ lastOp'.op \in {"restart", "start"}]_vars

\* C7 witness: a skip and a completion have each moved the level up by one
C7_Witness ==
  /\ state.gameState = "playing"
  /\ lastOp.op = "complete"
  /\ state.currentLevel = lastOp.level + 1
  /\ choices = <<"skip", "complete">>

\* C8: a second invocation of a microgame's completion callback leaves the
\* session state as it was.
C8_SecondInvocationHasNoEffect ==
  [][lastOp'.op = "dup" => state' = state]_vars

\* C9: a completion callback that fires after its level was left (by skip,
\* finish or restart) leaves the session state as it was.
C9_LateCallbackHasNoEffect ==
  [][lastOp'.op = "late" => state' = state]_vars

\* C10: completing or skipping level 5 makes gameState completed, and
\* gameState becomes completed only from playing at level 5, after one
\* complete-or-skip step per level.
C10_CompletedOnlyAfterLevelFive ==
  [][/\ (/\ lastOp'.op \in {"complete", "skip"}
         /\ state.currentLevel = NumLevels)
          => state'.gameState = "completed"
     /\ (state'.gameState = "completed" /\ state.gameState # "completed")
          => /\ state.gameState = "playing"
             /\ state.currentLevel = NumLevels
             /\ Len(choices') = NumLevels]_vars

\* C11: the only phase transitions are idle -> playing (start), playing ->
\* completed (finish) and playing or completed -> idle (restart).
C11_OnlyListedPhaseTransitions ==
  [][state'.gameState # state.gameState
       => \/ /\ state.gameState = "idle"
             /\ state'.gameState = "playing"
             /\ lastOp'.op = "start"
          \/ /\ state.gameState = "playing"
             /\ state'.gameState = "completed"
          \/ /\ state.gameState \in {"playing", "completed"}
             /\ state'.gameState = "idle"
             /\ lastOp'.op = "restart"]_vars

\* A step that begins a level: start, or an advance to the next level.
LevelBegan ==
  /\ state.gameState = "playing"
  /\ lastOp.op \in {"start", "complete", "skip", "late"}

\* C12: showSkipButton is false right after a level begins (at start and
\* after every advance, which hides it in the same transition), and while
\* playing it is true only when the current level has been active for the
\* full 5000 ms.
C12_SkipButtonOnlyAfterDelay ==
  /\ LevelBegan => ~state.showSkipButton
  /\ (state.gameState = "playing" /\ state.showSkipButton)
       => now - levelStart >= SKIP_DELAY_MS

\* C12 witness: the button has appeared on a level reached by an advance
C12_Witness ==
  /\ state.gameState = "playing"
  /\ state.currentLevel = 3
  /\ state.showSkipButton
  /\ lastOp.op = "timer"
  /\ now - levelStart = SKIP_DELAY_MS

\* C13: at most one skip-visibility timer is pending, and a pending timer
\* was scheduled for the current level of the current session: advance,
\* finish and restart each cancel the timer of the level they leave.
C13_OnlyTheCurrentLevelsTimerPending ==
  /\ Cardinality(timers) <= 1
  /\ \A tm \in timers :
       /\ state.gameState = "playing"
       /\ tm.level = state.currentLevel
       /\ tm.session = session

\* C14: in idle and completed the skip button is hidden and no timer is
\* pending that could show it.
C14_SkipButtonHiddenOutsidePlay ==
  state.gameState \in {"idle", "completed"}
    => /\ ~state.showSkipButton
       /\ timers = {}

\* C15: right after restart the session is back at its defaults: idle,
\* level 1, no start time, no accumulated penalty, skip button hidden, all
\* five level results at the default, and no skip timer pending.
C15_RestartResetsToDefaults ==
  lastOp.op = "restart"
    => /\ state.gameState = "idle"
       /\ state.currentLevel = 1
       /\ state.startTime = NULL
       /\ state.totalTime = 0
       /\ ~state.showSkipButton
       /\ \A i \in Levels : state.levelResults[i] = DefaultResult
       /\ timers = {}

\* The last session of the behaviour has been finished and restarted.
C15_Witness ==
  /\ lastOp.op = "restart"
  /\ session = MaxSessions
  /\ state = InitialState

\* C16: right after start the game is playing level 1 with all five level
\* results at the default, no accumulated penalty, the start time equal to
\* the current clock reading, the skip button hidden, and exactly one skip
\* timer pending, scheduled for level 1 and due in SKIP_DELAY_MS.
C16_StartInitialisesSession ==
  lastOp.op = "start"
    => /\ state = [gameState |-> "playing", currentLevel |-> 1,
                   startTime |-> now, totalTime |-> 0,
                   levelResults |-> DefaultResults,
                   showSkipButton |-> FALSE]
       /\ timers = {[id |-> skipButtonTimer, due |-> now + SKIP_DELAY_MS,
                     level |-> 1, session |-> session]}

\* A session has been started after an earlier one was finished and
\* restarted while a completion timeout of that earlier session is pending.
C16_Witness ==
  /\ lastOp.op = "start"
  /\ session = MaxSessions
  /\ \E p \in pending : p.session < session

\* The step leaves level i: the game was playing level i and is now on
\* another level or finished.
Leaves(i) ==
  /\ state.gameState = "playing"
  /\ state.currentLevel = i
  /\ \/ state'.currentLevel # i
     \/ state'.gameState = "completed"

\* C17: within a session (every step but start and restart) the result of
\* level i changes only in a step that leaves level i, that step does write
\* it, and a result that has been written is never changed again; so the
\* results of levels not yet left stay at the default.
C17_ResultWrittenOnceOnLeaving ==
  [][lastOp'.op \notin {"start", "restart"}
       => \A i \in Levels :
            /\ state'.levelResults[i] # state.levelResults[i]
                 => /\ Leaves(i)
                    /\ state.levelResults[i] = DefaultResult
            /\ Leaves(i) => state'.levelResults[i] # DefaultResult]_vars

\* C18: while the game stays completed the final time does not change.
C18_FinalTimeImmutable ==
  [][(state.gameState = "completed" /\ state'.gameState = "completed")
       => state'.totalTime = state.totalTime]_vars

\* C19 as stated: the start time is null whenever the game is not playing,
\* that is in idle and in completed.
C19_StartTimeNullUnlessPlaying ==
  state.gameState # "playing" => state.startTime = NULL

\* C19, amended: the start time is null in idle, start sets it to the
\* current clock reading and it stays set while playing; finishing does not
\* clear it, so the completed state reached by finishing a level still
\* holds the session's start time (only restart sets it back to null).
C19_StartTimeKeptUntilRestart ==
  /\ state.gameState = "idle" => state.startTime = NULL
  /\ lastOp.op = "start" => state.startTime = now
  /\ state.gameState = "playing"
       => /\ Truthy(state.startTime)
          /\ state.startTime <= now
  /\ JustFinished
       => /\ Truthy(state.startTime)
          /\ state.startTime < now

\* The fifth level has just been completed in a session that began before
\* the current clock reading, and the start time is still recorded.
C19_Witness ==
  /\ JustFinished
  /\ lastOp = [op |-> "complete", level |-> NumLevels]
  /\ state.startTime # NULL
  /\ state.startTime < now

\* C20: the completion of the current level k < 5 leaves totalTime,
\* startTime, gameState and the results of all other levels as they were;
\* it changes only currentLevel, levelResults[k], showSkipButton and the
\* skip timer.
C20_HonestCompletionFrame ==
  [][(lastOp'.op = "complete" /\ state.currentLevel < NumLevels)
       => /\ state'.totalTime = state.totalTime
          /\ state'.startTime = state.startTime
          /\ state'.gameState = state.gameState
          /\ \A i \in Levels \ {state.currentLevel} :
               state'.levelResults[i] = state.levelResults[i]
          /\ state'.levelResults[state.currentLevel].completed
          /\ state'.currentLevel = state.currentLevel + 1
          /\ ~state'.showSkipButton
          /\ skipButtonTimer' # skipButtonTimer
          /\ pending' \subseteq pending
          /\ session' = session]_vars

\* A level has been completed after an earlier level was skipped: the
\* penalty of that skip is still the whole accumulated penalty.
C20_Witness ==
  /\ state.gameState = "playing"
  /\ lastOp.op = "complete"
  /\ choices = <<"complete", "skip", "complete">>
  /\ state.totalTime = SKIP_PENALTY_MS
  /\ state.levelResults[lastOp.level].completed

\* onComplete calls an instance has scheduled and not yet made.
PendingCompletions ==
  Cardinality({i \in DOMAIN timeouts : timeouts[i].cb = "onComplete"})

\* onComplete calls made or bound to be made.
Invocations == completions + PendingCompletions

AcceptedCorrect ==
  \E i \in DOMAIN tapLog : tapLog[i].correct /\ tapLog[i].accepted

\* C21: in ColorMatch, DirectionMatch and OddOneOut, for every sequence of
\* taps, onComplete is scheduled once if a correct tap has been accepted
\* and not at all otherwise (so never by an incorrect tap), it is never
\* invoked twice, and no tap is accepted after the accepted correct one.
C21_TapGameCompletesOnce ==
  kind \in {"ColorMatch", "DirectionMatch", "OddOneOut"}
    => /\ Invocations = IF AcceptedCorrect THEN 1 ELSE 0
       /\ completions <= 1
       /\ \A i, j \in DOMAIN tapLog :
            (i < j /\ tapLog[i].correct /\ tapLog[i].accepted)
              => ~tapLog[j].accepted

\* Two incorrect attempts, a correct one and a tap during its feedback:
\* onComplete has been invoked once.
C21_Witness ==
  /\ kind = "DirectionMatch"
  /\ Len(tapLog) = 4
  /\ \A i \in 1..2 : ~tapLog[i].correct /\ tapLog[i].accepted
  /\ tapLog[3].correct /\ tapLog[3].accepted
  /\ tapLog[4].correct /\ ~tapLog[4].accepted
  /\ completions = 1
  /\ timeouts = <<>>

\* C22: a SpeedTap instance schedules onComplete at most once, whatever
\* taps it receives, so it never invokes it twice.
C22_SpeedTapCompletesOnce ==
  kind = "SpeedTap" => Invocations <= 1

\* C25: a SpeedTap instance has scheduled onComplete exactly when its count
\* of target taps has reached 10.
C25_SpeedTapWonByTenTaps ==
  kind = "SpeedTap" => ((Invocations >= 1) <=> (gameState.tapCount >= 10))

\* C23: a SequenceMemory instance schedules onComplete at most once, for
\* every interleaving of its taps and timeouts, so it never invokes it
\* twice.
C23_SequenceMemoryCompletesOnce ==
  kind = "SequenceMemory" => Invocations <= 1

\* The last n taps of the log were all accepted as correct.
LastTapsCorrect(n) ==
  /\ Len(tapLog) >= n
  /\ \A i \in (Len(tapLog) - n + 1)..Len(tapLog) :
       tapLog[i].correct /\ tapLog[i].accepted

\* C24: a SequenceMemory instance schedules onComplete only by a tap that
\* ends a run of SEQUENCE_LENGTH correct taps with no incorrect tap in
\* between, so an incorrect tap discards the progress entered before it.
C24_CompletionNeedsFullRun ==
  [][(kind = "SequenceMemory" /\ Invocations' > Invocations)
       => LastTapsCorrect(SEQUENCE_LENGTH)']_vars

\* C26: the timeSpent written for a level when it is completed or skipped
\* is the time between the moment that level began and that moment.
C26_TimeSpentIsPerLevel ==
  [][(/\ lastOp'.op \in {"complete", "skip"}
      /\ state'.levelResults[state.currentLevel]
           # state.levelResults[state.currentLevel])
       => state'.levelResults[state.currentLevel].timeSpent
            = now - levelStart]_vars

\* The puzzle of an instance: what the player has to find.
Puzzle ==
  CASE kind = "DirectionMatch" -> gameState.arrows
    [] kind = "ColorMatch" -> gameState.options
    [] kind = "OddOneOut" -> <<gameState.items, gameState.oddItemIndex>>
    [] kind = "SpeedTap" -> <<gameState.buttons, gameState.targetIndex>>
    [] kind = "SequenceMemory" -> gameState.sequence
    [] OTHER -> <<>>

\* The step is a tap the handler accepted as correct.
CorrectTapStep ==
  IF kind = "SpeedTap"
  THEN gameState'.tapCount = gameState.tapCount + 1
  ELSE /\ ~tapped /\ tapped'
       /\ tapLog'[Len(tapLog')].correct
       /\ tapLog'[Len(tapLog')].accepted

\* With no timeout pending and no completion scheduled so far, the
\* instance accepts the next correct tap.
AcceptsCorrectTap ==
  CASE kind \in {"DirectionMatch", "OddOneOut"} -> gameState.feedback = None
    [] kind = "ColorMatch" -> gameState.feedback = "none"
    [] kind = "SpeedTap"
         -> /\ gameState.buttons[gameState.targetIndex].isTarget
            /\ gameState.tapCount < gameState.requiredTaps
    [] kind = "SequenceMemory"
         -> gameState.phase = "input"
              => /\ ~gameState.isPlaying
                 /\ Len(gameState.playerSequence) < Len(gameState.sequence)
                 /\ gameState.playerSequence
                      = SubSeq(gameState.sequence, 1,
                               Len(gameState.playerSequence))
    [] OTHER -> TRUE

\* C27: in every microgame a tap that is not accepted as correct leaves
\* the puzzle as it is and schedules no onComplete; once the pending
\* timeouts have fired the instance accepts the next correct tap; and,
\* timeouts firing when due, a scheduled onComplete is invoked.
C27_IncorrectTapRecoverable ==
  /\ [][(Puzzle' # Puzzle \/ Invocations' > Invocations)
          => CorrectTapStep]_vars
  /\ []((timeouts = <<>> /\ Invocations = 0) => AcceptsCorrectTap)
  /\ ((PendingCompletions > 0) ~> (completions > 0))

\* Three incorrect attempts, then the correct one has completed the game.
C27_Witness ==
  /\ kind = "OddOneOut"
  /\ Len(tapLog) = 4
  /\ \A i \in 1..3 : ~tapLog[i].correct /\ tapLog[i].accepted
  /\ tapLog[4].correct /\ tapLog[4].accepted
  /\ completions = 1

\* C28: when the Skip button is activated twice before the next render,
\* each activation adds exactly SKIP_PENALTY_MS and moves exactly one level
\* on, and after the second one both levels passed over are recorded as
\* skipped.
C28_DoubleSkipCountsBothLevels ==
  [][/\ lastOp'.op \in {"skip", "skip2"}
       => /\ state'.totalTime = state.totalTime + SKIP_PENALTY_MS
          /\ state'.currentLevel = state.currentLevel + 1
     /\ lastOp'.op = "skip2"
       => \A i \in lastOp.level..(state'.currentLevel - 1) :
            Recorded(state'.levelResults[i], "skip")]_vars

\* The player's choices are the outcomes of levels 1, 2, ... in order.
ChoicesAligned == clean /\ Len(choices) = state.currentLevel - 1

\* C29: while a level is on screen, a slot below the current level shows
\* completed or skipped as that level's record says, never pending, and
\* the slot of a level the player skipped shows skipped; the slot of the
\* current level, and no other, shows current; the slots above it show
\* pending.
C29_ProgressShowsOutcomes ==
  (state.gameState = "playing" /\ RenderDefined(state))
    => \A i \in Slots :
         LET status == GetLevelStatus(i, state.currentLevel,
                                      state.levelResults)
             result == state.levelResults[i + 1]
         IN /\ i + 1 < state.currentLevel
              => /\ status \in {"completed", "skipped"}
                 /\ (status = "completed") = result.completed
                 /\ (status = "skipped") = result.skipped
                 /\ (ChoicesAligned /\ choices[i + 1] = "skip")
                      => status = "skipped"
            /\ (status = "current") = (i + 1 = state.currentLevel)
            /\ i + 1 > state.currentLevel => status = "pending"

\* C30: in every completed state the counts of the results screen add up
\* to the five levels, no level is recorded as both completed and skipped,
\* and, in the state the finishing step produced, the penalty shown
\* (skipped count x SKIP_PENALTY_MS) is the part of totalTime beyond the
\* time elapsed since the start.
C30_AggregatesConsistent ==
  state.gameState = "completed"
    => /\ CompletedLevels(state.levelResults)
            + SkippedLevels(state.levelResults) = NumLevels
       /\ \A i \in DOMAIN state.levelResults :
            ~(state.levelResults[i].completed
                /\ state.levelResults[i].skipped)
       /\ JustFinished
            => TotalPenalties(state.levelResults)
                 = state.totalTime - (now - state.startTime)

\* The step is a tap on a button of the instance.
TapStep == ~tapped /\ tapped'

\* The delays of playSequence that are pending (one at a time).
PlaybackTimeouts ==
  {i \in DOMAIN timeouts :
     timeouts[i].cb \in {"flashOn", "flashOff", "pause", "inputPhase"}}

\* How far playSequence has got: 2i - 1 before flash i lights up, 2i while
\* it is lit, then the gap after the last flash, the closing pause, and
\* PlaybackDone once the input phase has begun.
PlaybackDone == 2 * SEQUENCE_LENGTH + 3

PlaybackPosition ==
  IF PlaybackTimeouts = {} THEN PlaybackDone
  ELSE LET t == timeouts[CHOOSE i \in PlaybackTimeouts : TRUE]
       IN CASE t.cb = "flashOn" -> 2 * t.arg - 1
            [] t.cb = "flashOff" -> 2 * t.arg
            [] t.cb = "pause" -> 2 * SEQUENCE_LENGTH + 1
            [] t.cb = "inputPhase" -> 2 * SEQUENCE_LENGTH + 2

\* C31: in SequenceMemory a tap made while the sequence is shown changes
\* neither playerSequence nor buttonFeedback and schedules nothing; the
\* playback goes through its SEQUENCE_LENGTH flashes one after the other,
\* each lighting the button of its position, and the input phase begins
\* exactly when the playback has finished.
C31_TapsIgnoredDuringPlayback ==
  /\ [][(/\ kind = "SequenceMemory"
          /\ (gameState.phase # "input" \/ gameState.isPlaying)
          /\ TapStep)
         => /\ gameState' = gameState
            /\ timeouts' = timeouts
            /\ Invocations' = Invocations]_vars
  /\ [][kind = "SequenceMemory"
         => PlaybackPosition' \in {PlaybackPosition, PlaybackPosition + 1}]_vars
  /\ [](kind = "SequenceMemory"
         => /\ Cardinality(PlaybackTimeouts) <= 1
            /\ (gameState.phase = "input") = (PlaybackPosition = PlaybackDone)
            /\ gameState.isPlaying = (gameState.phase = "showing")
            /\ \A i \in 1..SEQUENCE_LENGTH :
                 PlaybackPosition = 2 * i
                   => gameState.currentFlash = gameState.sequence[i]
            /\ gameState.phase = "showing"
                 => /\ gameState.playerSequence = <<>>
                    /\ Invocations = 0)

\* A tap made during the playback was ignored, and the first tap of the
\* input phase was accepted.
C31_Witness ==
  /\ kind = "SequenceMemory"
  /\ gameState.phase = "input"
  /\ Len(tapLog) = 2
  /\ ~tapLog[1].accepted
  /\ tapLog[2].accepted /\ tapLog[2].correct
  /\ Len(gameState.playerSequence) = 1

\* C32: the sequence a SequenceMemory got on mount has SEQUENCE_LENGTH
\* buttons, and no step (tap, wrong tap, timeout) changes it.
C32_SequenceNeverChanges ==
  /\ [](kind = "SequenceMemory"
         => /\ Len(gameState.sequence) = SEQUENCE_LENGTH
            /\ \A i \in 1..SEQUENCE_LENGTH :
                 gameState.sequence[i] \in MemoryButtons)
  /\ [][kind = "SequenceMemory"
         => gameState'.sequence = gameState.sequence]_vars

\* A wrong tap was accepted and its delayed reset has run.
C32_Witness ==
  /\ kind = "SequenceMemory"
  /\ gameState.phase = "input"
  /\ Len(tapLog) = 1
  /\ tapLog[1].accepted /\ ~tapLog[1].correct
  /\ timeouts = <<>>
  /\ gameState.playerSequence = <<>>
  /\ \A b \in MemoryButtons : gameState.buttonFeedback[b] = "none"

\* p is an initial part of q.
IsPrefix(p, q) == Len(p) <= Len(q) /\ p = SubSeq(q, 1, Len(p))

\* C33: in SequenceMemory playerSequence is always a prefix of sequence,
\* and a step that schedules onComplete is a step that makes
\* playerSequence the whole sequence.
C33_PlayerSequenceIsPrefix ==
  /\ [](kind = "SequenceMemory"
         => /\ IsPrefix(gameState.playerSequence, gameState.sequence)
            /\ Len(gameState.playerSequence) \in 0..SEQUENCE_LENGTH)
  /\ [][(kind = "SequenceMemory" /\ Invocations' > Invocations)
         => /\ gameState.playerSequence # gameState.sequence
            /\ gameState'.playerSequence = gameState'.sequence]_vars

\* The whole sequence has been entered and onComplete is scheduled.
C33_Witness ==
  /\ kind = "SequenceMemory"
  /\ gameState.playerSequence = gameState.sequence
  /\ PendingCompletions = 1
  /\ completions = 0

\* The step is a tap on the SpeedTap button that is the target.
TargetTapStep == TapStep /\ tapLog'[1].correct

\* C34: in SpeedTap a tap on a button that is not the target leaves
\* tapCount and the target as they are, a tap on the target adds one to
\* tapCount, and nothing else changes tapCount: it is the number of taps
\* made on the target of the moment.
C34_WrongTapKeepsProgress ==
  /\ [][(kind = "SpeedTap" /\ TapStep /\ ~TargetTapStep)
         => /\ gameState'.tapCount = gameState.tapCount
            /\ gameState'.targetIndex = gameState.targetIndex
            /\ gameState'.buttons = gameState.buttons]_vars
  /\ [][kind = "SpeedTap"
         => gameState'.tapCount
              = gameState.tapCount + (IF TargetTapStep THEN 1 ELSE 0)]_vars
  /\ [](kind = "SpeedTap" /\ tapLog = <<>> => gameState.tapCount = 0)

\* Two taps on the target, then a tap on another button.
C34_Witness ==
  /\ kind = "SpeedTap"
  /\ gameState.tapCount = 2
  /\ tapLog = <<[correct |-> FALSE, accepted |-> TRUE]>>
  /\ gameState.wrongTapFeedback # None

Look(item) == <<item.shape, item.color, item.size, item.rotation>>

\* C36: a generated DirectionMatch has NUM_ARROWS arrows of pairwise
\* different directions, exactly one of them the target, the one pointing
\* in the target direction; a generated ColorMatch has NUM_OPTIONS options
\* of pairwise different colours, exactly one of them correct, the one of
\* the target colour; a generated OddOneOut has NUM_ITEMS items, exactly
\* one of them odd, the one at oddItemIndex, and the others all look the
\* same and unlike the odd one.
C36_ExactlyOneCorrectOption ==
  /\ (kind = "DirectionMatch" /\ DOMAIN gameState.arrows # {})
       => /\ DOMAIN gameState.arrows = 0..(NUM_ARROWS - 1)
          /\ \A i, j \in DOMAIN gameState.arrows :
               i # j => gameState.arrows[i].direction
                          # gameState.arrows[j].direction
          /\ Cardinality({i \in DOMAIN gameState.arrows :
                            gameState.arrows[i].isTarget}) = 1
          /\ \A i \in DOMAIN gameState.arrows :
               gameState.arrows[i].isTarget
                 = (gameState.arrows[i].direction = gameState.targetDirection)
  /\ (kind = "ColorMatch" /\ DOMAIN gameState.options # {})
       => /\ DOMAIN gameState.options = 0..(NUM_OPTIONS - 1)
          /\ \A i, j \in DOMAIN gameState.options :
               i # j => gameState.options[i].color
                          # gameState.options[j].color
          /\ Cardinality({i \in DOMAIN gameState.options :
                            gameState.options[i].isCorrect}) = 1
          /\ \A i \in DOMAIN gameState.options :
               gameState.options[i].isCorrect
                 = (gameState.options[i].color = gameState.targetColor)
  /\ (kind = "OddOneOut" /\ DOMAIN gameState.items # {})
       => /\ DOMAIN gameState.items = 0..(NUM_ITEMS - 1)
          /\ {i \in DOMAIN gameState.items : gameState.items[i].isOdd}
               = {gameState.oddItemIndex}
          /\ \A i, j \in DOMAIN gameState.items \ {gameState.oddItemIndex} :
               Look(gameState.items[i]) = Look(gameState.items[j])
          /\ \A i \in DOMAIN gameState.items \ {gameState.oddItemIndex} :
               Look(gameState.items[i])
                 # Look(gameState.items[gameState.oddItemIndex])

\* A generated ColorMatch whose correct option is the last of the four.
C36_Witness ==
  /\ kind = "ColorMatch"
  /\ DOMAIN gameState.options = 0..(NUM_OPTIONS - 1)
  /\ gameState.options[NUM_OPTIONS - 1].isCorrect
  /\ gameState.targetColor = COLORS[Len(COLORS)]

\* The last tap of the log was accepted and incorrect, and the timeout it
\* scheduled has not fired yet.
WrongTapJustMade ==
  /\ tapLog # <<>>
  /\ tapLog[Len(tapLog)].accepted
  /\ ~tapLog[Len(tapLog)].correct
  /\ \E i \in DOMAIN timeouts : timeouts[i].cb = "clearFeedback"

\* C37: in OddOneOut and DirectionMatch a tap on the correct item that
\* follows an incorrect tap before any timeout has fired is accepted and
\* schedules the completion.
C37_RetryAtOnce ==
  [][(/\ kind \in {"OddOneOut", "DirectionMatch"}
      /\ WrongTapJustMade
      /\ TapStep
      /\ tapLog'[Len(tapLog')].correct)
     => /\ tapLog'[Len(tapLog')].accepted
        /\ PendingCompletions' = 1]_vars

\* The session is playing level k.
Playing(k) == state.gameState = "playing" /\ state.currentLevel = k

\* A skip-visibility timer is pending that the clock of the model reaches.
TimerWillFire == \E tm \in timers : tm.due <= MaxTime

\* C38: while a level is being played, the skip-visibility timer scheduled
\* for it is pending or has shown the button; with timers firing when due
\* the button becomes visible unless the level is left before, and a
\* player who keeps skipping leaves every level, up to completed.
C38_SkippingReachesCompleted ==
  /\ []((state.gameState = "playing" /\ RenderDefined(state))
         => \/ state.showSkipButton
            \/ \E tm \in timers : /\ tm.level = state.currentLevel
                                   /\ tm.session = session)
  /\ \A k \in 1..(NumLevels + 1) :
       /\ (Playing(k) /\ TimerWillFire)
            ~> (~Playing(k) \/ state.showSkipButton)
       /\ (Playing(k) /\ state.showSkipButton) ~> ~Playing(k)

\* The number a character stands for (-1 if it is not a digit).
DigitValue(c) ==
  IF \E d \in 0..9 : DigitChars[d + 1] = c
  THEN CHOOSE d \in 0..9 : DigitChars[d + 1] = c
  ELSE -1

\* The number a string of digits stands for (-1 if it is not one).
RECURSIVE ParseInt(_)
ParseInt(str) ==
  IF str = <<>> THEN -1
  ELSE LET last == DigitValue(str[Len(str)])
           front == SubSeq(str, 1, Len(str) - 1)
       IN IF last < 0 THEN -1
          ELSE IF front = <<>> THEN last
          ELSE IF ParseInt(front) < 0 THEN -1
          ELSE 10 * ParseInt(front) + last

\* C39: formatTime renders a time as minutes ":" seconds "." hundredths,
\* the minutes with two digits or more and the others with two digits,
\* where minutes = ms div 60000, seconds = (ms div 1000) mod 60 and
\* hundredths = (ms mod 1000) div 10; the Timer and the ResultsScreen
\* render every time alike.
C39_FormatTimeRendersParts ==
  (kind = "formatTime" /\ gameState.timer # <<>>)
    => LET ms == gameState.milliseconds
           text == gameState.timer
           n == Len(text)
           minutes == SubSeq(text, 1, n - 6)
           seconds == SubSeq(text, n - 4, n - 3)
           hundredths == SubSeq(text, n - 1, n)
       IN /\ n >= 8
          /\ text[n - 5] = ":"
          /\ text[n - 2] = "."
          /\ ParseInt(minutes) = ms \div 60000
          /\ ParseInt(seconds) = (ms \div 1000) % 60
          /\ ParseInt(seconds) \in 0..59
          /\ ParseInt(hundredths) = (ms % 1000) \div 10
          /\ ParseInt(hundredths) \in 0..99
          /\ Len(minutes) = 2 \/ minutes[1] # "0"
          /\ gameState.results = text

\* A time of a hundred minutes and more has been rendered.
C39_Witness ==
  /\ kind = "formatTime"
  /\ gameState.milliseconds = 100 * 60000 + 9 * 1000 + 99
  /\ gameState.timer = <<"1", "0", "0", ":", "0", "9", ".", "0", "9">>
  /\ gameState.results = gameState.timer

====
